---- MODULE Spec2Model ----
(***************************************************************************)
(* The session manager of src/src/context/AuthContext.tsx (AuthProvider)   *)
(* together with its two collaborators, the identity service               *)
(* (supabase.auth) and the profiles table.                                 *)
(*                                                                         *)
(* Scheduling: the UI event loop is single-threaded, so every action is   *)
(* one task: the code of a handler from one await to the next.  A request *)
(* to the profiles table has two legs: the store serves it (reads or      *)
(* writes the row) and, later, the response reaches the client and the    *)
(* code after the await runs.  Each render creates fresh closures over    *)
(* the committed state, so a call reads the state of its start and keeps  *)
(* that copy across its awaits.                                            *)
(***************************************************************************)
EXTENDS Integers, Sequences, FiniteSets, TLC

\* ---- bound of the model ---------------------------------------------------
\* stimuli from outside: calls of login, signup, logout and updateUserPoints,
\* session changes the component did not ask for, and the teardown
MaxOps == 2

\* ---- values ---------------------------------------------------------------
Ids       == {"u1", "u2"}
NewIds    == {"u2"}                     \* the subject ids a signup is given
NoUser    == [none |-> "user"]          \* user === null
NoSession == "nosession"                \* session === null
NoRow     == [none |-> "row"]           \* no profile row for the id
Null      == "null"                     \* a null column
Undefined == "undefined"
Deltas    == {-10, 50}                  \* arguments of updateUserPoints
ServiceErrors == {"Invalid credentials"}  \* error.message of the identity service
NoToast   == [none |-> "toast"]
NoNav     == "none"
NoReturn  == [none |-> "return"]
NoError   == "noerror"                  \* the call resolved
ThrownErrors == {"Failed to fetch"}     \* what a request throws when it cannot be made
NoChain   == [none |-> "chain"]

\* the profile row of u1 at start, and the row u2 has when it has one
RowA == [id |-> "u1", email |-> "a@b.com", name |-> "A", education |-> "BSc", points |-> 10]
RowB == [id |-> "u2", email |-> Null, name |-> Null, education |-> Null, points |-> 0]

\* arguments of signup(name, email, password, education)
SignupName      == "N"
SignupEmail     == "n@b.com"
SignupEducation == "MSc"

VARIABLES
  phase,      \* "unmounted" | "mounted" | "torndown": the provider's life
  subs,       \* subscriptions of this component registered with the service
  user,       \* useState<User | null>
  isLoading,  \* useState<boolean>
  session,    \* the identity service's current session (its subject id)
  rows,       \* the profiles table: id -> row
  initPc,     \* getInitialSession: "idle" | "getSession" | "fetch" | "done" | "rejected"
  fetches,    \* fetchUserProfile calls in flight, in the order of their start
  logins,     \* login calls in flight
  signups,    \* signup calls in flight
  recons,     \* deferred signup reconciliations (the setTimeout callback)
  logouts,    \* logout calls in flight
  updates,    \* the log of updateUserPoints calls, in call order
  completes,  \* handleCompleteCourse calls of the course page in flight
  completed,  \* the completed_courses table: the user ids with a row
  toast,      \* the notification this task showed
  navigated,  \* the route this task navigated to
  returned,   \* the login, signup, logout or handleCompleteCourse call this
              \* task settled, and how
  lastEvent,  \* kind of the notification delivered last
  nOps,       \* stimuli so far
  chain       \* history: the run of updateUserPoints calls made one after the
              \* other, with nothing else touching user or the table meanwhile

vars == <<phase, subs, user, isLoading, session, rows, initPc, fetches, logins,
          signups, recons, logouts, updates, completes, completed, toast,
          navigated, returned, lastEvent, nOps, chain>>

\* ---- helpers --------------------------------------------------------------
\* a slip: the column copied as it is, null included
OrElseKeep(x, dflt) == x

\* x || dflt of JavaScript for a nullable string column
OrElse(x, dflt) == IF x \in {Null, ""} THEN dflt ELSE x

\* the object literal of setUser({...}) in fetchUserProfile
ProfileToUser(profile) ==
  [id |-> profile.id,
   email |-> OrElse(profile.email, ""),
   name |-> OrElse(profile.name, ""),
   education |-> OrElse(profile.education, Undefined),
   points |-> profile.points]

\* a change: a setter that still writes after the unmount
SetStateAlways(new, old) == new

\* a state setter of the component: React drops updates of an unmounted one
SetState(new, old) == IF phase = "mounted" THEN new ELSE old

\* toast({...})
Toast(variant, title, description) ==
  [variant |-> variant, title |-> title, description |-> description]

\* a slip: a fixed text in place of error.message
FailToastFixed(title, message) == Toast("destructive", title, "An error occurred")

\* the destructive toast of a request the identity service turned down
FailToast(title, message) == Toast("destructive", title, message)

\* the promise of call op settles: resolved (NoError) or rejected with error
Return(op, error) == [op |-> op, error |-> error]

\* a task that shows nothing, navigates nowhere and settles no such call
Quiet == toast' = NoToast /\ navigated' = NoNav /\ returned' = NoReturn

\* a fetchUserProfile call entering its await
NewFetch(origin, userId) ==
  [origin |-> origin, userId |-> userId, stage |-> "sent", snap |-> NoRow]

\* a sequence without its i-th element
Without(seq, i) == SubSeq(seq, 1, i - 1) \o SubSeq(seq, i + 1, Len(seq))

\* the callback given to onAuthStateChange: the value it leaves in user ...
HandlerUser(event, sess) ==
  IF sess # NoSession /\ event \in {"SIGNED_IN", "TOKEN_REFRESHED"} THEN user
  ELSE IF event = "SIGNED_OUT" THEN SetState(NoUser, user)
  ELSE user

\* ... and the profile fetches in flight after it
HandlerFetches(event, sess) ==
  IF sess # NoSession /\ event \in {"SIGNED_IN", "TOKEN_REFRESHED"}
  THEN Append(fetches, NewFetch("event", sess))
  ELSE fetches

\* the service notifies the subscribers of a session change
Notify(event, sess) ==
  IF subs > 0
  THEN /\ user' = HandlerUser(event, sess)
       /\ fetches' = HandlerFetches(event, sess)
       /\ lastEvent' = event
  ELSE UNCHANGED <<user, fetches, lastEvent>>

\* the updateUserPoints calls awaiting their response
InFlight(u) == u.status \in {"sent", "served"}
OpenUpdates == {i \in DOMAIN updates : InFlight(updates[i])}

\* the history variable chain over a step: start the points the first call
\* found in user, sum the start plus the arguments of the calls that succeeded,
\* len their number, cur the call of the run in flight (0: none)
ChainNext ==
  chain' =
    IF Len(updates') > Len(updates)
    THEN LET k == Len(updates') IN
         IF /\ updates'[k].status = "sent" /\ OpenUpdates = {}
            /\ completes' = completes \/ updates'[k].user = user
         THEN IF chain = NoChain
              THEN [sum |-> updates'[k].user.points, len |-> 0, cur |-> k]
              ELSE [chain EXCEPT !.cur = k]
         ELSE NoChain
    ELSE IF chain = NoChain THEN NoChain
    ELSE IF chain.cur # 0 /\ updates'[chain.cur].status # updates[chain.cur].status
    THEN CASE updates'[chain.cur].status = "served" -> chain
           [] updates'[chain.cur].status = "ok" /\ phase = "mounted" ->
                [sum |-> chain.sum + updates[chain.cur].d, len |-> chain.len + 1, cur |-> 0]
           [] OTHER -> NoChain
    ELSE IF user' # user \/ rows' # rows \/ phase' # phase THEN NoChain
    ELSE chain

\* ---- the provider's life ---------------------------------------------------
Init ==
  /\ phase = "unmounted"
  /\ subs = 0
  /\ user = NoUser
  /\ isLoading = TRUE
  /\ session \in Ids \cup {NoSession}
  /\ rows \in {[u1 |-> RowA, u2 |-> r] : r \in {NoRow, RowB}}
  /\ initPc = "idle"
  /\ fetches = <<>>
  /\ logins = 0
  /\ signups = 0
  /\ recons = {}
  /\ logouts = 0
  /\ updates = <<>>
  /\ completes = <<>>
  /\ completed = {}
  /\ toast = NoToast
  /\ navigated = NoNav
  /\ returned = NoReturn
  /\ lastEvent = "none"
  /\ nOps = 0
  /\ chain = NoChain

\* the effect of useEffect(..., []): start the session check, subscribe
Mount ==
  /\ phase = "unmounted"
  /\ phase' = "mounted"
  /\ isLoading' = TRUE
  /\ initPc' = "getSession"
  /\ subs' = subs + 1
  /\ Quiet
  /\ UNCHANGED <<user, session, rows, fetches, logins, signups, recons, logouts,
                 updates, lastEvent, nOps,
                 completes, completed>>
  /\ ChainNext

\* a slip: a cleanup that releases nothing
UnsubscribeNot(n) == n

\* subscription.unsubscribe() on the n subscriptions of the component
Unsubscribe(n) == n - 1

\* the parent unmounts the provider: the cleanup of the effect
Unmount ==
  /\ phase = "mounted"
  /\ nOps < MaxOps
  /\ nOps' = nOps + 1
  /\ phase' = "torndown"
  /\ subs' = Unsubscribe(subs)
  /\ Quiet
  /\ UNCHANGED <<user, isLoading, session, rows, initPc, fetches, logins, signups,
                 recons, logouts, updates, lastEvent,
                 completes, completed>>
  /\ ChainNext

\* getInitialSession after `await supabase.auth.getSession()`: the result
\* carries the session, or no session (there is none, or an error result)
GetSessionResolve ==
  /\ initPc = "getSession"
  /\ \E found \in BOOLEAN :
     IF found /\ session # NoSession
     THEN /\ initPc' = "fetch"
          /\ fetches' = Append(fetches, NewFetch("init", session))
          /\ UNCHANGED isLoading
     ELSE /\ initPc' = "done"
          /\ isLoading' = SetState(FALSE, isLoading)
          /\ UNCHANGED fetches
  /\ Quiet
  /\ UNCHANGED <<phase, subs, user, session, rows, logins, signups, recons, logouts,
                 updates, lastEvent, nOps,
                 completes, completed>>
  /\ ChainNext

\* getSession() rejects: nothing catches it, getInitialSession ends there
GetSessionReject ==
  /\ initPc = "getSession"
  /\ initPc' = "rejected"
  /\ Quiet
  /\ UNCHANGED <<phase, subs, user, isLoading, session, rows, fetches, logins, signups,
                 recons, logouts, updates, lastEvent, nOps,
                 completes, completed>>
  /\ ChainNext

\* ---- fetchUserProfile ------------------------------------------------------
\* the store serves the select: the response carries the row as it is now
FetchServe ==
  \E i \in DOMAIN fetches :
    /\ fetches[i].stage = "sent"
    /\ fetches' = [fetches EXCEPT ![i].stage = "served", ![i].snap = rows[fetches[i].userId]]
    /\ Quiet
    /\ UNCHANGED <<phase, subs, user, isLoading, session, rows, initPc, logins,
                   signups, recons, logouts, updates, lastEvent, nOps,
                 completes, completed>>
    /\ ChainNext

\* what the caller of fetchUserProfile does when the call returns
AfterFetch(f) ==
  /\ IF f.origin = "init"
     THEN /\ initPc' = "done"
          /\ isLoading' = SetState(FALSE, isLoading)
     ELSE UNCHANGED <<initPc, isLoading>>
  /\ IF f.origin = "signup"
     THEN /\ navigated' = "/dashboard"
          /\ recons' = {r \in recons : r.id # f.userId}
     ELSE /\ navigated' = NoNav
          /\ UNCHANGED recons
  /\ toast' = NoToast
  /\ returned' = NoReturn

\* the response carries a row: setUser({...})
FetchReturn ==
  \E i \in DOMAIN fetches :
    LET f == fetches[i] IN
    /\ f.stage = "served"
    /\ f.snap # NoRow
    /\ user' = SetState(ProfileToUser(f.snap), user)
    /\ fetches' = Without(fetches, i)
    /\ AfterFetch(f)
    /\ UNCHANGED <<phase, subs, session, rows, logins, signups, logouts, updates,
                   lastEvent, nOps,
                 completes, completed>>
    /\ ChainNext

\* the ways call f can end without setUser: an error result (also: no row
\* for .single()), no data, or a thrown failure
FetchFailures(f) ==
  {outcome \in {"error", "nodata", "thrown"} : outcome = "nodata" => f.stage = "served"}

\* the call ends in one of these ways: they all leave the same state
FetchFail ==
  \E i \in DOMAIN fetches :
    LET f == fetches[i] IN
    /\ FetchFailures(f) # {}
    /\ fetches' = Without(fetches, i)
    /\ AfterFetch(f)
    /\ UNCHANGED <<phase, subs, user, session, rows, logins, signups, logouts,
                   updates, lastEvent, nOps,
                 completes, completed>>
    /\ ChainNext

\* ---- change notifications from the identity service -----------------------
\* a session change the component did not ask for (another tab, expiry, refresh)
AuthEvent ==
  /\ subs > 0
  /\ nOps < MaxOps
  /\ nOps' = nOps + 1
  /\ \E event \in {"SIGNED_IN", "TOKEN_REFRESHED", "SIGNED_OUT", "USER_UPDATED"} :
       \E sess \in Ids \cup {NoSession} :
         /\ event = "SIGNED_IN" => sess # NoSession
         /\ event \in {"TOKEN_REFRESHED", "USER_UPDATED"} => sess = session /\ sess # NoSession
         /\ event = "SIGNED_OUT" => sess = NoSession
         /\ session' = sess
         /\ Notify(event, sess)
  /\ Quiet
  /\ UNCHANGED <<phase, subs, isLoading, rows, initPc, logins, signups, recons,
                 logouts, updates,
                 completes, completed>>
  /\ ChainNext

\* ---- login -------------------------------------------------------------------
\* login up to `await supabase.auth.signInWithPassword(...)`
LoginCall ==
  /\ phase = "mounted"
  /\ nOps < MaxOps
  /\ nOps' = nOps + 1
  /\ logins' = logins + 1
  /\ isLoading' = SetState(TRUE, isLoading)
  /\ Quiet
  /\ UNCHANGED <<phase, subs, user, session, rows, initPc, fetches, signups, recons,
                 logouts, updates, lastEvent,
                 completes, completed>>
  /\ ChainNext

\* the service accepts the credentials: it opens the session, notifies the
\* subscribers, and login runs on to its finally
LoginOk ==
  /\ logins > 0
  /\ \E id \in Ids :
       /\ session' = id
       /\ Notify("SIGNED_IN", id)
  /\ logins' = logins - 1
  /\ toast' = Toast("default", "Logged in successfully", "Welcome back to ElevateCareer!")
  /\ navigated' = "/dashboard"
  /\ returned' = Return("login", NoError)
  /\ isLoading' = SetState(FALSE, isLoading)
  /\ UNCHANGED <<phase, subs, rows, initPc, signups, recons, logouts, updates, nOps,
                 completes, completed>>
  /\ ChainNext

\* the service returns an error (toast, throw) or the request itself throws
LoginFail ==
  /\ logins > 0
  /\ \E outcome \in {"error", "thrown"}, msg \in ServiceErrors, exc \in ThrownErrors :
       IF outcome = "error"
       THEN toast' = FailToast("Login failed", msg) /\ returned' = Return("login", msg)
       ELSE toast' = NoToast /\ returned' = Return("login", exc)
  /\ navigated' = NoNav
  /\ logins' = logins - 1
  /\ isLoading' = SetState(FALSE, isLoading)
  /\ UNCHANGED <<phase, subs, user, session, rows, initPc, fetches, signups, recons,
                 logouts, updates, lastEvent, nOps,
                 completes, completed>>
  /\ ChainNext

\* ---- signup ------------------------------------------------------------------
\* signup up to `await supabase.auth.signUp(...)`
SignupCall ==
  /\ phase = "mounted"
  /\ nOps < MaxOps
  /\ nOps' = nOps + 1
  /\ signups' = signups + 1
  /\ isLoading' = SetState(TRUE, isLoading)
  /\ Quiet
  /\ UNCHANGED <<phase, subs, user, session, rows, initPc, fetches, logins, recons,
                 logouts, updates, lastEvent,
                 completes, completed>>
  /\ ChainNext

\* the service accepts the registration of subject id: with or without
\* data.user, and with or without a session opened at once
SignupOk ==
  /\ signups > 0
  /\ \E id \in NewIds, hasUser \in BOOLEAN, hasSession \in BOOLEAN :
       /\ hasSession => hasUser
       /\ hasUser => \A r \in recons : r.id # id
       /\ IF hasSession
          THEN session' = id /\ Notify("SIGNED_IN", id)
          ELSE UNCHANGED <<session, user, fetches, lastEvent>>
       /\ recons' = IF hasUser THEN recons \cup {[id |-> id, stage |-> "timer"]}
                    ELSE recons
  /\ signups' = signups - 1
  /\ toast' = Toast("default", "Account created", "Welcome to ElevateCareer!")
  /\ navigated' = NoNav
  /\ returned' = Return("signup", NoError)
  /\ isLoading' = SetState(FALSE, isLoading)
  /\ UNCHANGED <<phase, subs, rows, initPc, logins, logouts, updates, nOps,
                 completes, completed>>
  /\ ChainNext

\* the service returns an error (toast, throw) or the request itself throws
SignupFail ==
  /\ signups > 0
  /\ \E outcome \in {"error", "thrown"}, msg \in ServiceErrors, exc \in ThrownErrors :
       IF outcome = "error"
       THEN toast' = FailToast("Signup failed", msg) /\ returned' = Return("signup", msg)
       ELSE toast' = NoToast /\ returned' = Return("signup", exc)
  /\ navigated' = NoNav
  /\ signups' = signups - 1
  /\ isLoading' = SetState(FALSE, isLoading)
  /\ UNCHANGED <<phase, subs, user, session, rows, initPc, fetches, logins, recons,
                 logouts, updates, lastEvent, nOps,
                 completes, completed>>
  /\ ChainNext

\* a slip: the fallback row starts with a welcome bonus
SignupRowBonus(id) ==
  [id |-> id, email |-> SignupEmail, name |-> SignupName,
   education |-> SignupEducation, points |-> 50]

\* the row a signup leaves in the profiles table
SignupRow(id) ==
  [id |-> id, email |-> SignupEmail, name |-> SignupName,
   education |-> SignupEducation, points |-> 0]

\* the backend's trigger creates the row of a registered subject
Trigger ==
  \E r \in recons :
    /\ rows[r.id] = NoRow
    /\ rows' = [rows EXCEPT ![r.id] = SignupRow(r.id)]
    /\ Quiet
    /\ UNCHANGED <<phase, subs, user, isLoading, session, initPc, fetches, logins,
                   signups, recons, logouts, updates, lastEvent, nOps,
                 completes, completed>>
    /\ ChainNext

\* the recon r moves on to fetchUserProfile(data.user.id)
ReconFetch(r) ==
  /\ recons' = (recons \ {r}) \cup {[r EXCEPT !.stage = "fetch"]}
  /\ fetches' = Append(fetches, NewFetch("signup", r.id))

\* the timer fired and the select of the row resolved: with the row, without
\* one (no row, or an error result), or by throwing, which ends the callback
ReconQuery ==
  \E r \in recons, outcome \in {"row", "norow", "thrown"} :
    /\ r.stage = "timer"
    /\ outcome = "row" => rows[r.id] # NoRow
    /\ CASE outcome = "row"    -> ReconFetch(r)
         [] outcome = "norow"  -> /\ recons' = (recons \ {r}) \cup {[r EXCEPT !.stage = "insert"]}
                                  /\ UNCHANGED fetches
         [] outcome = "thrown" -> /\ recons' = recons \ {r}
                                  /\ UNCHANGED fetches
    /\ Quiet
    /\ UNCHANGED <<phase, subs, user, isLoading, session, rows, initPc, logins,
                   signups, logouts, updates, lastEvent, nOps,
                 completes, completed>>
    /\ ChainNext

\* the insert resolved: the store added the row unless the key exists (its
\* error result is not looked at), or the request threw
ReconInsert ==
  \E r \in recons, outcome \in {"served", "error", "thrown"} :
    /\ r.stage = "insert"
    /\ rows' = IF outcome = "served" /\ rows[r.id] = NoRow
               THEN [rows EXCEPT ![r.id] = SignupRow(r.id)]
               ELSE rows
    /\ IF outcome = "thrown"
       THEN recons' = recons \ {r} /\ UNCHANGED fetches
       ELSE ReconFetch(r)
    /\ Quiet
    /\ UNCHANGED <<phase, subs, user, isLoading, session, initPc, logins, signups,
                   logouts, updates, lastEvent, nOps,
                 completes, completed>>
    /\ ChainNext

\* ---- logout ------------------------------------------------------------------
\* logout up to `await supabase.auth.signOut()`
LogoutCall ==
  /\ phase = "mounted"
  /\ nOps < MaxOps
  /\ nOps' = nOps + 1
  /\ logouts' = logouts + 1
  /\ Quiet
  /\ UNCHANGED <<phase, subs, user, isLoading, session, rows, initPc, fetches, logins,
                 signups, recons, updates, lastEvent,
                 completes, completed>>
  /\ ChainNext

\* the value of user after the code that follows a signOut() that resolved
LogoutUser(handled) == SetState(NoUser, handled)

\* signOut() resolves: with the session closed and the subscribers notified
\* ("ok"), or with an error result, which logout does not look at
LogoutResolve ==
  /\ logouts > 0
  /\ \E outcome \in {"ok", "error"} :
       IF outcome = "ok" /\ subs > 0
       THEN /\ session' = NoSession
            /\ lastEvent' = "SIGNED_OUT"
            /\ fetches' = HandlerFetches("SIGNED_OUT", NoSession)
            /\ user' = LogoutUser(HandlerUser("SIGNED_OUT", NoSession))
       ELSE /\ session' = IF outcome = "ok" THEN NoSession ELSE session
            /\ user' = LogoutUser(user)
            /\ UNCHANGED <<fetches, lastEvent>>
  /\ logouts' = logouts - 1
  /\ toast' = Toast("default", "Logged out", "You have been logged out successfully")
  /\ navigated' = "/"
  /\ returned' = Return("logout", NoError)
  /\ UNCHANGED <<phase, subs, isLoading, rows, initPc, logins, signups, recons,
                 updates, nOps,
                 completes, completed>>
  /\ ChainNext

\* signOut() throws: the catch block
LogoutThrown ==
  /\ logouts > 0
  /\ logouts' = logouts - 1
  /\ toast' = Toast("destructive", "Logout failed", "An error occurred during logout")
  /\ navigated' = NoNav
  /\ returned' = Return("logout", NoError)
  /\ UNCHANGED <<phase, subs, user, isLoading, session, rows, initPc, fetches, logins,
                 signups, recons, updates, lastEvent, nOps,
                 completes, completed>>
  /\ ChainNext

\* ---- updateUserPoints --------------------------------------------------------
\* a slip: the argument taken as the new balance
NewPointsSet(u, d) == d

\* a change: the balance read from the committed state, not from the closure
NewPointsCurrent(u, d) == IF user # NoUser THEN user.points + d ELSE u.points + d

\* user.points + points
NewPoints(u, d) == u.points + d

\* a slip: the guard `if (!user) return` left out
NewUpdateNoGuard(u, d) ==
  [user |-> IF u = NoUser THEN ProfileToUser(RowA) ELSE u, d |-> d, status |-> "sent",
   open |-> OpenUpdates]

\* a slip: the call runs with the closure of an earlier render, the one the
\* call before it ran with
NewUpdateStale(u, d) ==
  [user |-> IF u # NoUser /\ updates # <<>> /\ updates[Len(updates)].user # NoUser
            THEN updates[Len(updates)].user ELSE u,
   d |-> d, status |-> IF u = NoUser THEN "returned" ELSE "sent", open |-> OpenUpdates]

\* the entry of a call in the log: the closure's user, the argument, the calls
\* open at its start; `if (!user) return` ends it at once
NewUpdate(u, d) ==
  [user |-> u, d |-> d, status |-> IF u = NoUser THEN "returned" ELSE "sent",
   open |-> OpenUpdates]

\* ---- the course page: handleCompleteCourse ---------------------------------
\* the page is a child of the provider; src holds two versions of it
LoadingPage == "unnamed/part_000"        \* guards on its own isLoading, awards 50
RewardPage  == "pages/CourseDetailPage"  \* awards course.pointsReward
Pages       == {LoadingPage, RewardPage}
CourseReward  == 50
PointsRewards == {0, 50}                 \* course.pointsReward (0: none)
HandleCompleteCourse == "handleCompleteCourse"

\* the rewards a completion on the page can carry
RewardsOf(page) == IF page = LoadingPage THEN {CourseReward} ELSE PointsRewards

\* isLoading of the page of part_000: set from the guard to the finally
PageLoading(page) ==
  page = LoadingPage /\ \E k \in DOMAIN completes : completes[k].page = page

\* a slip: the page's loading flag left out of the guard
MayCompleteNoLoading(page, u) == u # NoUser

\* the guard at the top of handleCompleteCourse, u the user of the render
MayComplete(page, u) == u # NoUser /\ ~PageLoading(page)

\* the toast that announces the completion and the points earned
CompletedToast(reward) == Toast("default", "Course Completed!", reward)

\* the destructive toast of a failed insert (error result) or of the catch
ErrorToast(page, outcome) ==
  IF page = LoadingPage
  THEN Toast("destructive", "Error completing course",
             "There was a problem recording your progress.")
  ELSE Toast("destructive", "Error",
             IF outcome = "error" THEN "Failed to mark course as complete."
             ELSE "An error occurred while completing the course.")

\* the handler of completion k ends: showing t, or nothing
EndComplete(k, t) ==
  /\ completes' = Without(completes, k)
  /\ toast' = t
  /\ navigated' = NoNav
  /\ returned' = Return(HandleCompleteCourse, NoError)

\* the user clicks "complete": the handler returns at its guard, or runs up
\* to the await of the insert into completed_courses
CompleteCall ==
  /\ phase = "mounted"
  /\ nOps < MaxOps
  /\ nOps' = nOps + 1
  /\ \E page \in Pages :
       \E reward \in RewardsOf(page) :
         IF MayComplete(page, user)
         THEN /\ completes' = Append(completes,
                     [page |-> page, user |-> user, reward |-> reward,
                      stage |-> "insert", upd |-> 0])
              /\ Quiet
         ELSE /\ UNCHANGED completes
              /\ toast' = NoToast
              /\ navigated' = NoNav
              /\ returned' = Return(HandleCompleteCourse, NoError)
  /\ UNCHANGED <<phase, subs, user, isLoading, session, rows, initPc, fetches, logins,
                 signups, recons, logouts, updates, completed, lastEvent>>
  /\ ChainNext

\* the insert succeeded: the handler goes on to updateUserPoints, the one of
\* the render it was created in, or ends at once when the course has no reward
CompleteInsertOk ==
  \E k \in DOMAIN completes :
    LET c == completes[k] IN
    /\ c.stage = "insert"
    /\ completed' = completed \cup {c.user.id}
    /\ IF c.page = LoadingPage \/ c.reward # 0
       THEN /\ updates' = Append(updates, NewUpdate(c.user, c.reward))
            /\ completes' = [completes EXCEPT ![k].stage = "points",
                                              ![k].upd = Len(updates) + 1]
            /\ Quiet
       ELSE /\ EndComplete(k, CompletedToast(0))
            /\ UNCHANGED updates
    /\ UNCHANGED <<phase, subs, user, isLoading, session, rows, initPc, fetches,
                   logins, signups, recons, logouts, lastEvent, nOps>>
    /\ ChainNext

\* the insert returned an error result, or the request threw
CompleteInsertFail ==
  \E k \in DOMAIN completes, outcome \in {"error", "thrown"} :
    /\ completes[k].stage = "insert"
    /\ EndComplete(k, ErrorToast(completes[k].page, outcome))
    /\ UNCHANGED <<phase, subs, user, isLoading, session, rows, initPc, fetches,
                   logins, signups, recons, logouts, updates, completed, lastEvent,
                   nOps>>
    /\ ChainNext

\* updateUserPoints call i resolved: the handleCompleteCourse that awaited it,
\* if there is one, runs to its end
AfterUpdate(i) ==
  IF \E k \in DOMAIN completes : completes[k].upd = i
  THEN LET k == CHOOSE k \in DOMAIN completes : completes[k].upd = i
       IN EndComplete(k, CompletedToast(completes[k].reward))
  ELSE Quiet /\ UNCHANGED completes

\* ---- updateUserPoints, its steps ---------------------------------------------
\* updateUserPoints(d) up to the await
UpdateCall ==
  /\ phase = "mounted"
  /\ nOps < MaxOps
  /\ nOps' = nOps + 1
  /\ \E d \in Deltas : updates' = Append(updates, NewUpdate(user, d))
  /\ Quiet
  /\ UNCHANGED <<phase, subs, user, isLoading, session, rows, initPc, fetches, logins,
                 signups, recons, logouts, lastEvent,
                 completes, completed>>
  /\ ChainNext

\* the store applies .update({ points: newPoints }).eq('id', user.id)
UpdateServe ==
  \E i \in DOMAIN updates :
    LET u == updates[i] IN
    /\ u.status = "sent"
    /\ rows' = IF rows[u.user.id] = NoRow THEN rows
               ELSE [rows EXCEPT ![u.user.id].points = NewPoints(u.user, u.d)]
    /\ updates' = [updates EXCEPT ![i].status = "served"]
    /\ Quiet
    /\ UNCHANGED <<phase, subs, user, isLoading, session, initPc, fetches, logins,
                   signups, recons, logouts, lastEvent, nOps,
                 completes, completed>>
    /\ ChainNext

\* the response has no error: setUser({...user, points: newPoints})
UpdateReturn ==
  \E i \in DOMAIN updates :
    LET u == updates[i] IN
    /\ u.status = "served"
    /\ user' = SetState([u.user EXCEPT !.points = NewPoints(u.user, u.d)], user)
    /\ updates' = [updates EXCEPT ![i].status = "ok"]
    /\ AfterUpdate(i)
    /\ UNCHANGED <<phase, subs, isLoading, session, rows, initPc, fetches, logins,
                   signups, recons, logouts, completed, lastEvent, nOps>>
    /\ ChainNext

\* the ways call u can fail: the store rejects the write (error result) or
\* the request throws
UpdateFailures(u) == {outcome \in {"error", "thrown"} : u.status = "sent"}

\* the call fails in one of these ways: only logged
UpdateFail ==
  \E i \in DOMAIN updates :
    LET u == updates[i] IN
    /\ UpdateFailures(u) # {}
    /\ updates' = [updates EXCEPT ![i].status = "failed"]
    /\ AfterUpdate(i)
    /\ UNCHANGED <<phase, subs, user, isLoading, session, rows, initPc, fetches,
                   logins, signups, recons, logouts, completed, lastEvent, nOps>>
    /\ ChainNext

Next ==
  \/ Mount
  \/ Unmount
  \/ GetSessionResolve
  \/ GetSessionReject
  \/ FetchServe
  \/ FetchReturn
  \/ FetchFail
  \/ AuthEvent
  \/ LoginCall
  \/ LoginOk
  \/ LoginFail
  \/ SignupCall
  \/ SignupOk
  \/ SignupFail
  \/ Trigger
  \/ ReconQuery
  \/ ReconInsert
  \/ LogoutCall
  \/ LogoutResolve
  \/ LogoutThrown
  \/ UpdateCall
  \/ UpdateServe
  \/ UpdateReturn
  \/ UpdateFail
  \/ CompleteCall
  \/ CompleteInsertOk
  \/ CompleteInsertFail

Spec == Init /\ [][Next]_vars

\* ---- the claims ---------------------------------------------------------------
Mounted == phase = "mounted"

\* C1: in every state the session manager has no user unless a session
\* exists: whenever the session is absent, user is empty, whatever requests
\* were in flight when the session ended.
C1_NoSessionNoUser == Mounted /\ session = NoSession => user = NoUser

\* every request that can still change user has settled
Settled ==
  /\ fetches = <<>>
  /\ recons = {}
  /\ signups = 0
  /\ OpenUpdates = {}
  /\ initPc \in {"done", "rejected"}

\* C2: when the last change notification delivered was signed-out and every
\* profile fetch has settled, user is empty.
C2_SignedOutLastUserEmpty ==
  Mounted /\ lastEvent = "SIGNED_OUT" /\ Settled => user = NoUser

\* updateUserPoints is called through the function of the current render
DirectCall == Len(updates') > Len(updates) /\ completes' = completes

\* the step takes call i of the log from status a to status b
Moves(i, a, b) ==
  /\ i \in DOMAIN updates
  /\ updates[i].status = a
  /\ updates'[i].status = b

Overlap(i, k) ==
  /\ i # k
  /\ i \in updates[k].open \/ k \in updates[i].open
  /\ updates[i].user = updates[k].user

\* C5: of two overlapping updateUserPoints calls started with the same
\* user, the one whose write is applied later leaves p plus its own argument
\* in the row, and the one whose response arrives later leaves p plus its
\* own argument in user: the other argument is lost.
C5_LostUpdate ==
  [][ \A i, k \in DOMAIN updates :
        LET p == updates[k].user.points IN
        /\ (Overlap(i, k) /\ updates[i].status \in {"served", "ok"}
              /\ Moves(k, "sent", "served") /\ rows[updates[k].user.id] # NoRow) =>
             /\ rows'[updates[k].user.id].points = p + updates[k].d
             /\ updates[i].d # 0 =>
                  rows'[updates[k].user.id].points # p + updates[i].d + updates[k].d
        /\ (Overlap(i, k) /\ updates[i].status = "ok"
              /\ Moves(k, "served", "ok") /\ Mounted) =>
             /\ user'.points = p + updates[k].d
             /\ updates[i].d # 0 => user'.points # p + updates[i].d + updates[k].d
    ]_vars

\* C5 witness: both calls succeeded and local and remote points hold the
\* start plus one argument only
C5_Witness ==
  \E i, k \in DOMAIN updates :
    /\ Overlap(i, k)
    /\ updates[i].status = "ok" /\ updates[k].status = "ok"
    /\ updates[i].d # updates[k].d
    /\ user # NoUser
    /\ user.points = updates[k].user.points + updates[k].d
    /\ rows[user.id].points = user.points
    /\ user.points # updates[k].user.points + updates[i].d + updates[k].d

C7_LocalEqualsRemote ==
  (Mounted /\ user # NoUser /\ OpenUpdates = {} /\ rows[user.id] # NoRow) =>
     user.points = rows[user.id].points

\* C8: isLoading is true while the initial session check, a login or a
\* signup is in flight.
C8_LoadingWhileInFlight ==
  (Mounted /\ (initPc \in {"getSession", "fetch"} \/ logins > 0 \/ signups > 0)) =>
     isLoading

\* C9: the step that ends the initial session check, whatever its outcome,
\* sets isLoading to false; when the session request returned no session,
\* user is empty at that point.
C9_InitEndsLoading ==
  [][ (Mounted /\ initPc \in {"getSession", "fetch"}
         /\ initPc' \notin {"getSession", "fetch"}) =>
        /\ isLoading' = FALSE
        /\ initPc = "getSession" => user' = NoUser
    ]_vars

\* C10: when logout() settles, user is empty, whether signOut succeeded,
\* returned an error or threw.
C10_LogoutClearsUser ==
  [][ (Mounted /\ logouts' = logouts - 1) => user' = NoUser ]_vars

\* the task settles a login or a signup call
SettlesLogin  == logins' = logins - 1
SettlesSignup == signups' = signups - 1

\* C11: when the identity service rejects a login or a signup, the call
\* shows a destructive notification carrying the service's message, rejects
\* to its caller with that error, leaves user unchanged and schedules no
\* reconciliation and no fetch; every exit of login and signup, success or
\* failure, leaves isLoading false.
C11_RejectedLoginSignup ==
  [][ /\ SettlesLogin \/ SettlesSignup =>
           /\ returned' # NoReturn
           /\ returned'.op = IF SettlesLogin THEN "login" ELSE "signup"
           /\ Mounted => isLoading' = FALSE
           /\ returned'.error # NoError =>
                /\ user' = user
                /\ recons' = recons
                /\ fetches' = fetches
                /\ session' = session
                /\ navigated' = NoNav
           /\ returned'.error \in ServiceErrors =>
                toast' = Toast("destructive",
                               IF SettlesLogin THEN "Login failed" ELSE "Signup failed",
                               returned'.error)
    ]_vars

\* C11 witness: a signup the service turned down left the signed-in user in
\* place, with the message shown and isLoading false
C11_Witness ==
  /\ Mounted
  /\ returned # NoReturn
  /\ returned.op = "signup"
  /\ returned.error \in ServiceErrors
  /\ toast # NoToast
  /\ toast.variant = "destructive"
  /\ toast.description = returned.error
  /\ user # NoUser
  /\ recons = {}
  /\ ~isLoading

\* C12: a profile fetch that settles changes user only when its response
\* carries a row, and then user is that row's id and points, its email and
\* name or "" and its education or unset; otherwise user stays exactly as it
\* was; the fetch is gone afterwards and no other one was started.
C12_FetchOverwritesOrLeaves ==
  [][ Len(fetches') < Len(fetches) =>
        \E i \in DOMAIN fetches :
          LET f == fetches[i]
              p == f.snap
          IN /\ fetches' = Without(fetches, i)
             /\ \/ user' = user
                \/ /\ f.stage = "served"
                   /\ p # NoRow
                   /\ user' = [id |-> p.id,
                               email |-> IF p.email = Null THEN "" ELSE p.email,
                               name |-> IF p.name = Null THEN "" ELSE p.name,
                               education |-> IF p.education = Null THEN Undefined
                                             ELSE p.education,
                               points |-> p.points]
    ]_vars

\* C12 witness: the row of u2, all nullable columns null, was fetched
C12_Witness ==
  /\ Mounted
  /\ fetches = <<>>
  /\ initPc = "done"
  /\ user # NoUser
  /\ user.id = "u2"
  /\ rows["u2"] # NoRow
  /\ rows["u2"].email = Null
  /\ user.email = "" /\ user.name = "" /\ user.education = Undefined
  /\ user.points = rows["u2"].points

\* the row the signup callback inserts for subject id
Fallback(id) ==
  [id |-> id, email |-> SignupEmail, name |-> SignupName,
   education |-> SignupEducation, points |-> 0]

\* the step starts a profile fetch for id on behalf of the signup callback
StartsSignupFetch(id) ==
  /\ Len(fetches') = Len(fetches) + 1
  /\ fetches'[Len(fetches')].origin = "signup"
  /\ fetches'[Len(fetches')].userId = id
  /\ fetches'[Len(fetches')].stage = "sent"

\* C13: an accepted signup shows its success notification at once, with
\* the reconciliation of the new subject still waiting.  The reconciliation
\* first queries the row and changes no row doing so; it goes straight to the
\* profile fetch only when the row is there, and to the insert otherwise.
\* The insert adds the row with points 0 and the supplied name, email and
\* education only where there is no row, and never changes an existing row;
\* the profile fetch follows it.  The fetch that brings the inserted row
\* leaves user with points 0.
C13_Reconciliation ==
  [][ /\ \A r \in recons :
           /\ r.stage = "timer" /\ r \notin recons' =>
                /\ rows' = rows
                /\ \A q \in recons' : q.id = r.id =>
                     \/ /\ q.stage = "fetch"
                        /\ rows[r.id] # NoRow
                        /\ StartsSignupFetch(r.id)
                     \/ /\ q.stage = "insert"
                        /\ fetches' = fetches
           /\ r.stage = "insert" /\ r \notin recons' =>
                /\ \/ rows' = rows
                   \/ /\ rows[r.id] = NoRow
                      /\ rows' = [rows EXCEPT ![r.id] = Fallback(r.id)]
                /\ \A q \in recons' : q.id = r.id =>
                     q.stage = "fetch" /\ StartsSignupFetch(r.id)
      /\ SettlesSignup /\ returned'.error = NoError =>
           /\ toast' = Toast("default", "Account created", "Welcome to ElevateCareer!")
           /\ rows' = rows
           /\ \A q \in recons' \ recons : q.stage = "timer" /\ q.id \in NewIds
      /\ \A i \in DOMAIN fetches :
           LET f == fetches[i] IN
           (/\ fetches' = Without(fetches, i)
            /\ f.origin = "signup" /\ f.stage = "served"
            /\ f.snap = Fallback(f.userId)
            /\ user' # user) =>
              /\ user'.id = f.userId
              /\ user'.points = 0
              /\ user'.name = SignupName
              /\ navigated' = "/dashboard"
    ]_vars

\* C13 witness: the reconciliation ended with the inserted row in user
C13_Witness ==
  /\ Mounted
  /\ navigated = "/dashboard"
  /\ toast = NoToast
  /\ recons = {}
  /\ user # NoUser
  /\ user.id \in NewIds
  /\ user.points = 0
  /\ user.name = SignupName
  /\ rows[user.id] = Fallback(user.id)

\* C14: the effects of change notifications on user are applied in the
\* order of their arrival: once signed-out was the last notification
\* delivered, the profile fetch of a notification before it, settling only
\* now, does not change user any more.
C14_LastWriteWins ==
  [][ \A i \in DOMAIN fetches :
        (/\ Mounted
         /\ lastEvent = "SIGNED_OUT"
         /\ fetches[i].origin = "event"
         /\ fetches' = Without(fetches, i)) => user' = user
    ]_vars

\* C15: the mounted component holds exactly one subscription, registered
\* by its mount; the teardown releases it, once, whatever became of the
\* session check and the fetches; before the mount and after the teardown the
\* component has no subscription.
C15_OneSubscription ==
  /\ Mounted => subs = 1
  /\ ~Mounted => subs = 0

\* C15 witness: torn down after the session check was rejected, with a
\* request still in flight
C15_Witness ==
  /\ phase = "torndown"
  /\ subs = 0
  /\ initPc = "rejected"
  /\ logins > 0 \/ fetches # <<>>

C17_InsertGatesPoints ==
  [][ /\ \A k \in DOMAIN completes :
           LET c == completes[k] IN
           /\ c.stage = "points" => c.user.id \in completed
           /\ (c.stage = "insert" /\ completes' = Without(completes, k)) =>
                /\ updates' = updates
                /\ \/ /\ toast' # NoToast
                      /\ toast'.variant = "destructive"
                      /\ completed' = completed
                   \/ /\ c.page = RewardPage
                      /\ c.reward = 0
                      /\ c.user.id \in completed'
           /\ (c.stage = "insert" /\ Len(completes') = Len(completes)
                 /\ completes'[k].stage = "points") =>
                /\ c.user.id \in completed'
                /\ Len(updates') = Len(updates) + 1
                /\ completes'[k].upd = Len(updates')
                /\ updates'[Len(updates')].user = c.user
                /\ updates'[Len(updates')].d = c.reward
                /\ updates'[Len(updates')].status = "sent"
      /\ (Len(updates') > Len(updates) /\ ~DirectCall) =>
           \E k \in DOMAIN completes :
             /\ completes[k].stage = "insert"
             /\ completes[k].user.id \in completed'
             /\ Len(completes') = Len(completes)
             /\ completes'[k].stage = "points"
      /\ Len(completes') > Len(completes) =>
           LET c == completes'[Len(completes')] IN
           /\ user # NoUser
           /\ c.user = user
           /\ c.stage = "insert"
           /\ c.page = LoadingPage =>
                \A k \in DOMAIN completes : completes[k].page # LoadingPage
           /\ updates' = updates
           /\ completed' = completed
      /\ (returned' = Return(HandleCompleteCourse, NoError) /\ toast' = NoToast) =>
           /\ completes' = completes
           /\ updates' = updates
           /\ completed' = completed
    ]_vars

\* C17 witness: on the page with the loading guard the insert succeeded and
\* the points update is in flight, and a second click has just returned at
\* the guard
C17_Witness ==
  /\ Len(completes) = 1
  /\ completes[1].page = LoadingPage
  /\ completes[1].stage = "points"
  /\ completes[1].user.id \in completed
  /\ Len(updates) = 1
  /\ completes[1].upd = 1
  /\ updates[1].d = CourseReward
  /\ InFlight(updates[1])
  /\ returned = Return(HandleCompleteCourse, NoError)
  /\ toast = NoToast

\* C18: a handleCompleteCourse that ends announcing "Course Completed!"
\* with earned points has recorded the completion and its points update was
\* written and acknowledged: never announced while the update failed or was
\* skipped.
C18_AnnouncedMeansAwarded ==
  [][ \A k \in DOMAIN completes :
        LET c == completes[k] IN
        (/\ completes' = Without(completes, k)
         /\ c.reward # 0
         /\ toast' = CompletedToast(c.reward)) =>
           /\ c.user.id \in completed'
           /\ c.upd \in DOMAIN updates'
           /\ updates'[c.upd].status = "ok"
    ]_vars
====
